---- MODULE Spec2Model ----
(***************************************************************************)
(* Model of vtkCalculateOversamplingFactor                                 *)
(* (Libs/vtkSegmentationCore/vtkCalculateOversamplingFactor.cxx):          *)
(*   - DetermineOversamplingFactor: fuzzy inference over two crisp inputs  *)
(*   - ClipMembershipFunction: clipping of a piecewise-linear function     *)
(*   - ApplyOversamplingOnImageGeometry: rescaling of a grid geometry      *)
(*                                                                         *)
(* A C++ double is modelled as an exact fraction <<n, d>> in lowest terms  *)
(* with d > 0, extended by the IEEE-754 specials <<0,0>> (NaN), <<1,0>>    *)
(* (+infinity) and <<-1,0>> (-infinity). Rounding error of binary floating *)
(* point and the sign of zero are not modelled.                            *)
(***************************************************************************)
EXTENDS Integers, Sequences, FiniteSets, TLC

\* ------------------------------------------------------------------------
\* Bounds of the model
\* ------------------------------------------------------------------------
\* sizeMeasure inputs are the multiples of 1/SizeDen in [-1, 5]
SizeDen == 4
\* complexityMeasure inputs are -1 and the multiples of 1/ComplexityDen in [0, 2]
ComplexityDen == 5
\* clip values of the stand-alone clipping runs are the multiples of 1/ClipDen in [0, 1]
ClipDen == 12
\* a function is clipped at most MaxClips times in a stand-alone clipping run
MaxClips == 2
\* grids have 1..MaxDimension voxels per axis
MaxDimension == 2
\* grid extents start in -MaxExtentMin..MaxExtentMin
MaxExtentMin == 1

\* ------------------------------------------------------------------------
\* double arithmetic
\* ------------------------------------------------------------------------
Abs(n) == IF n < 0 THEN -n ELSE n

Sign(n) == IF n < 0 THEN -1 ELSE IF n > 0 THEN 1 ELSE 0

RECURSIVE GCD(_, _)
GCD(a, b) == IF b = 0 THEN a ELSE GCD(b, a % b)

\* the double n/d (d # 0), in lowest terms with a positive denominator
R(n, d) ==
  LET g == GCD(Abs(n), Abs(d))
      s == Sign(d)
  IN  <<(s * n) \div g, Abs(d) \div g>>

NaN == <<0, 0>>
PosInf == <<1, 0>>
NegInf == <<-1, 0>>

IsNaN(a) == a = NaN
IsInf(a) == a[2] = 0 /\ a[1] # 0
IsFinite(a) == a[2] > 0

Zero == R(0, 1)
One == R(1, 1)
Half == R(1, 2)

\* a + b
XAdd(a, b) ==
  IF IsNaN(a) \/ IsNaN(b) THEN NaN
  ELSE IF IsInf(a) /\ IsInf(b) THEN (IF a = b THEN a ELSE NaN)
  ELSE IF IsInf(a) THEN a
  ELSE IF IsInf(b) THEN b
  ELSE LET g == GCD(a[2], b[2])
       IN  R(a[1] * (b[2] \div g) + b[1] * (a[2] \div g), (a[2] \div g) * b[2])

XNeg(a) == <<-a[1], a[2]>>

\* a - b
XSub(a, b) == XAdd(a, XNeg(b))

\* a * b
XMul(a, b) ==
  IF IsNaN(a) \/ IsNaN(b) THEN NaN
  ELSE IF IsInf(a) \/ IsInf(b)
       THEN (IF a[1] = 0 \/ b[1] = 0 THEN NaN ELSE <<Sign(a[1]) * Sign(b[1]), 0>>)
  ELSE LET g1 == GCD(Abs(a[1]), b[2])
           g2 == GCD(Abs(b[1]), a[2])
       IN  R((a[1] \div g1) * (b[1] \div g2), (a[2] \div g2) * (b[2] \div g1))

\* a / b  (x/0 is an infinity, 0/0 is NaN)
XDiv(a, b) ==
  IF IsNaN(a) \/ IsNaN(b) THEN NaN
  ELSE IF IsInf(a) THEN (IF IsInf(b) THEN NaN
                         ELSE <<a[1] * (IF b[1] < 0 THEN -1 ELSE 1), 0>>)
  ELSE IF IsInf(b) THEN Zero
  ELSE IF b[1] = 0 THEN (IF a[1] = 0 THEN NaN ELSE <<Sign(a[1]), 0>>)
  ELSE LET g1 == GCD(Abs(a[1]), Abs(b[1]))
           g2 == GCD(a[2], b[2])
       IN  R((a[1] \div g1) * (b[2] \div g2), (a[2] \div g2) * (b[1] \div g1))

\* a < b  (false when either is NaN)
XLt(a, b) ==
  IF IsNaN(a) \/ IsNaN(b) THEN FALSE
  ELSE IF IsInf(a) /\ IsInf(b) THEN a[1] < b[1]
  ELSE LET g == GCD(a[2], b[2])
       IN  a[1] * (b[2] \div g) < b[1] * (a[2] \div g)

XGt(a, b) == XLt(b, a)

\* a >= b  (false when either is NaN)
XGe(a, b) == ~IsNaN(a) /\ ~IsNaN(b) /\ ~XLt(a, b)

XLe(a, b) == XGe(b, a)

\* std::min(a, b) == (b < a) ? b : a
XMin(a, b) == IF XLt(b, a) THEN b ELSE a

\* floor() and ceil() of a finite double, as an integer
Floor(a) == a[1] \div a[2]

Ceil(a) == -((-a[1]) \div a[2])

RECURSIVE Pow2(_)
Pow2(k) == IF k = 0 THEN 1 ELSE 2 * Pow2(k - 1)

\* pow(2.0, p) for an integral p
PowerOfTwo(p) == IF p >= 0 THEN R(Pow2(p), 1) ELSE R(1, Pow2(-p))

\* ------------------------------------------------------------------------
\* vtkPiecewiseFunction: a sequence of nodes <<x, y>> kept sorted by x
\* ------------------------------------------------------------------------
\* AddPoint(x, y): a node already at x is replaced, the nodes stay sorted
AddPoint(f, x, y) ==
  LET before == SelectSeq(f, LAMBDA n : XLt(n[1], x))
      after == SelectSeq(f, LAMBDA n : XGt(n[1], x))
  IN  before \o << <<x, y>> >> \o after

\* GetValue with clamping off: 0.0 outside the nodes
GetValueUnclamped(f, x) ==
  IF XLt(x, f[1][1]) \/ XGt(x, f[Len(f)][1]) THEN Zero
  ELSE LET above == {i \in 1..Len(f) : ~XGt(x, f[i][1])}
           idx == CHOOSE i \in above : \A j \in above : i <= j
       IN  IF idx = 1 THEN f[1][2]
           ELSE LET s == XDiv(XSub(x, f[idx - 1][1]), XSub(f[idx][1], f[idx - 1][1]))
                IN  XAdd(XMul(XSub(One, s), f[idx - 1][2]), XMul(s, f[idx][2]))

\* GetValue(x): linear between nodes, clamped to the end nodes outside them
\* (the search stops at the first node that x is not greater than, so a NaN
\* stops at the first node)
GetValue(f, x) ==
  LET above == {i \in 1..Len(f) : ~XGt(x, f[i][1])}
  IN  IF above = {} THEN f[Len(f)][2]
      ELSE LET idx == CHOOSE i \in above : \A j \in above : i <= j
           IN  IF idx = 1 THEN f[1][2]
               ELSE LET x1 == f[idx - 1][1]
                        x2 == f[idx][1]
                        y1 == f[idx - 1][2]
                        y2 == f[idx][2]
                        s == XDiv(XSub(x, x1), XSub(x2, x1))
                    IN  XAdd(XMul(XSub(One, s), y1), XMul(s, y2))

\* ------------------------------------------------------------------------
\* ClipMembershipFunction
\* ------------------------------------------------------------------------
\* the parameter value with the slope taken the wrong way round
NewNodeParameterValueReversed(currentNode, nextNode, clipValue) ==
  XAdd(XDiv(XMul(XSub(nextNode[1], currentNode[1]), XSub(currentNode[2], clipValue)),
            XSub(nextNode[2], currentNode[2])),
       currentNode[1])

\* parameter value strictly between two nodes where the membership is the clip value
NewNodeParameterValue(currentNode, nextNode, clipValue) ==
  XAdd(XDiv(XMul(XSub(nextNode[1], currentNode[1]), XSub(currentNode[2], clipValue)),
            XSub(currentNode[2], nextNode[2])),
       currentNode[1])

\* does the segment between two nodes cross the clip value strictly inside it
CrossesClipValue(currentNode, nextNode, clipValue) ==
  \/ (XLt(currentNode[2], clipValue) /\ XGt(nextNode[2], clipValue))
  \/ (XGt(currentNode[2], clipValue) /\ XLt(nextNode[2], clipValue))

\* first loop: newNodeParameterValues, collected from node pair nodeIndex onwards
RECURSIVE NewNodeParameterValues(_, _, _)
NewNodeParameterValues(f, clipValue, nodeIndex) ==
  IF nodeIndex >= Len(f) THEN <<>>
  ELSE (IF CrossesClipValue(f[nodeIndex], f[nodeIndex + 1], clipValue)
        THEN <<NewNodeParameterValue(f[nodeIndex], f[nodeIndex + 1], clipValue)>>
        ELSE <<>>)
       \o NewNodeParameterValues(f, clipValue, nodeIndex + 1)

\* the second loop with the comparison the wrong way round: nodes holding less
\* than the clip value are moved up to it
MoveNodesDownFlipped(f, clipValue) ==
  [nodeIndex \in 1..Len(f) |->
     IF XLt(f[nodeIndex][2], clipValue)
     THEN <<f[nodeIndex][1], clipValue>>
     ELSE f[nodeIndex]]

\* the second loop stopping one node early, like the first loop
MoveNodesDownButLast(f, clipValue) ==
  [nodeIndex \in 1..Len(f) |->
     IF nodeIndex < Len(f) /\ XGt(f[nodeIndex][2], clipValue)
     THEN <<f[nodeIndex][1], clipValue>>
     ELSE f[nodeIndex]]

\* second loop: nodes holding more than the clip value are moved down to it
MoveNodesDown(f, clipValue) ==
  [nodeIndex \in 1..Len(f) |->
     IF XGt(f[nodeIndex][2], clipValue)
     THEN <<f[nodeIndex][1], clipValue>>
     ELSE f[nodeIndex]]

\* third loop: a node at the clip value is added at every clipping point
RECURSIVE AddClippingPoints(_, _, _)
AddClippingPoints(f, points, clipValue) ==
  IF points = <<>> THEN f
  ELSE AddClippingPoints(AddPoint(f, Head(points), clipValue), Tail(points), clipValue)

ClipMembershipFunction(membershipFunction, clipValue) ==
  IF XGe(clipValue, One)
  THEN membershipFunction
  ELSE AddClippingPoints(MoveNodesDown(membershipFunction, clipValue),
                         NewNodeParameterValues(membershipFunction, clipValue, 1),
                         clipValue)

\* ------------------------------------------------------------------------
\* Membership functions of DetermineOversamplingFactor
\* ------------------------------------------------------------------------
\* a function built by successive AddPoint calls
RECURSIVE AddPoints(_, _)
AddPoints(f, nodes) ==
  IF nodes = <<>> THEN f
  ELSE AddPoints(AddPoint(f, Head(nodes)[1], Head(nodes)[2]), Tail(nodes))

sizeLarge == AddPoints(<<>>, << <<R(1, 2), One>>, <<R(2, 1), Zero>> >>)
sizeMedium == AddPoints(<<>>, << <<R(1, 2), Zero>>, <<R(2, 1), One>>,
                              <<R(5, 2), One>>, <<R(3, 1), Zero>> >>)
sizeSmall == AddPoints(<<>>, << <<R(5, 2), Zero>>, <<R(3, 1), One>>,
                             <<R(13, 4), One>>, <<R(15, 4), Zero>> >>)
sizeVerySmall == AddPoints(<<>>, << <<R(13, 4), Zero>>, <<R(15, 4), One>> >>)

complexityLow == AddPoints(<<>>, << <<R(1, 5), One>>, <<R(3, 5), Zero>> >>)
complexityHigh == AddPoints(<<>>, << <<R(1, 5), Zero>>, <<R(3, 5), One>> >>)

oversamplingLow == AddPoints(<<>>, << <<R(-5, 4), One>>, <<R(-3, 4), One>>,
                                   <<R(1, 4), Zero>> >>)
oversamplingNormal == AddPoints(<<>>, << <<R(-3, 4), Zero>>, <<R(1, 4), One>>,
                                      <<R(1, 4), One>>, <<R(3, 4), Zero>> >>)
oversamplingHigh == AddPoints(<<>>, << <<R(1, 4), Zero>>, <<R(3, 4), One>>,
                                    <<R(5, 4), One>>, <<R(7, 4), Zero>> >>)
oversamplingVeryHigh == AddPoints(<<>>, << <<R(5, 4), Zero>>, <<R(7, 4), One>>,
                                        <<R(9, 4), One>> >>)

\* the four output membership functions, by name
OutputNames == {"Low", "Normal", "High", "VeryHigh"}

OutputMembershipFunctions ==
  [Low |-> oversamplingLow, Normal |-> oversamplingNormal,
   High |-> oversamplingHigh, VeryHigh |-> oversamplingVeryHigh]

\* the consequent of each of the six rules
RuleConsequent == <<"VeryHigh", "High", "High", "Normal", "Normal", "Low">>

NumRules == Len(RuleConsequent)

\* the failure value of the two measures
InvalidMeasure == R(-1, 1)

\* the guard with && in place of ||
InvalidInputMeasuresBoth(relSize, complexity) ==
  relSize = InvalidMeasure /\ complexity = InvalidMeasure

\* the guard of DetermineOversamplingFactor
InvalidInputMeasures(relSize, complexity) ==
  relSize = InvalidMeasure \/ complexity = InvalidMeasure

\* the clipping values with rule 3 reading the Small membership, as rule 2 does
ClippingValuesRule3Small(relSize, complexity) ==
  LET sizeLargeMembership == GetValue(sizeLarge, relSize)
      sizeMediumMembership == GetValue(sizeMedium, relSize)
      sizeSmallMembership == GetValue(sizeSmall, relSize)
      sizeVerySmallMembership == GetValue(sizeVerySmall, relSize)
      complexityLowMembership == GetValue(complexityLow, complexity)
      complexityHighMembership == GetValue(complexityHigh, complexity)
  IN  << sizeVerySmallMembership,
         XMin(sizeSmallMembership, complexityHighMembership),
         XMin(sizeSmallMembership, complexityHighMembership),
         XMin(sizeSmallMembership, complexityLowMembership),
         XMin(sizeMediumMembership, complexityLowMembership),
         sizeLargeMembership >>

\* the clipping values of rules 1..6 for a pair of crisp inputs
ClippingValues(relSize, complexity) ==
  LET sizeLargeMembership == GetValue(sizeLarge, relSize)
      sizeMediumMembership == GetValue(sizeMedium, relSize)
      sizeSmallMembership == GetValue(sizeSmall, relSize)
      sizeVerySmallMembership == GetValue(sizeVerySmall, relSize)
      complexityLowMembership == GetValue(complexityLow, complexity)
      complexityHighMembership == GetValue(complexityHigh, complexity)
  IN  << sizeVerySmallMembership,
         XMin(sizeSmallMembership, complexityHighMembership),
         XMin(sizeMediumMembership, complexityHighMembership),
         XMin(sizeSmallMembership, complexityLowMembership),
         XMin(sizeMediumMembership, complexityLowMembership),
         sizeLargeMembership >>

\* ------------------------------------------------------------------------
\* Areas and centroids of the sections of a consequent
\* ------------------------------------------------------------------------
\* <<trapezoidArea, trapezoidCentroid>> of the section between two nodes
Trapezoid(currentNode, nextNode) ==
  LET width == XSub(nextNode[1], currentNode[1])
      bottomRectangleArea == XMul(width, XMin(nextNode[2], currentNode[2]))
      bottomRectangleCentroid == XDiv(XAdd(nextNode[1], currentNode[1]), R(2, 1))
      topTriangleArea ==
        IF XGt(nextNode[2], currentNode[2])
        THEN XDiv(XMul(width, XSub(nextNode[2], currentNode[2])), R(2, 1))
        ELSE IF XLt(nextNode[2], currentNode[2])
        THEN XDiv(XMul(width, XSub(currentNode[2], nextNode[2])), R(2, 1))
        ELSE Zero
      topTriangleCentroid ==
        IF XGt(nextNode[2], currentNode[2])
        THEN XAdd(currentNode[1], XDiv(XMul(width, R(2, 1)), R(3, 1)))
        ELSE IF XLt(nextNode[2], currentNode[2])
        THEN XAdd(currentNode[1], XDiv(width, R(3, 1)))
        ELSE Zero
      trapezoidArea == XAdd(bottomRectangleArea, topTriangleArea)
      trapezoidCentroid ==
        IF XGt(topTriangleArea, Zero)
        THEN XDiv(XAdd(XMul(bottomRectangleArea, bottomRectangleCentroid),
                       XMul(topTriangleArea, topTriangleCentroid)),
                  XAdd(bottomRectangleArea, topTriangleArea))
        ELSE bottomRectangleCentroid
  IN  <<trapezoidArea, trapezoidCentroid>>

\* the pairs one consequent adds to areaCentroidPairs, from node pair nodeIndex onwards
RECURSIVE SectionPairs(_, _)
SectionPairs(f, nodeIndex) ==
  IF nodeIndex >= Len(f) THEN <<>>
  ELSE LET pair == Trapezoid(f[nodeIndex], f[nodeIndex + 1])
       IN  (IF XGt(pair[1], Zero) THEN <<pair>> ELSE <<>>)
           \o SectionPairs(f, nodeIndex + 1)

\* areaCentroidPairs of the consequents from index consequentIndex onwards
RECURSIVE AreaCentroidPairs(_, _)
AreaCentroidPairs(functions, consequentIndex) ==
  IF consequentIndex > Len(functions) THEN <<>>
  ELSE SectionPairs(functions[consequentIndex], 1)
       \o AreaCentroidPairs(functions, consequentIndex + 1)

\* sum of area * centroid over the pairs
RECURSIVE Nominator(_)
Nominator(pairs) ==
  IF pairs = <<>> THEN Zero
  ELSE XAdd(XMul(Head(pairs)[1], Head(pairs)[2]), Nominator(Tail(pairs)))

\* sum of area over the pairs
RECURSIVE Denominator(_)
Denominator(pairs) ==
  IF pairs = <<>> THEN Zero
  ELSE XAdd(Head(pairs)[1], Denominator(Tail(pairs)))

\* the rounded power returned as it is, not 2 to that power
DefuzzifiedPower(pairs) ==
  LET centerOfMass == XDiv(Nominator(pairs), Denominator(pairs))
  IN  IF IsFinite(centerOfMass)
      THEN R(Floor(XAdd(centerOfMass, Half)), 1)
      ELSE centerOfMass

\* pow(2.0, floor(centerOfMass + 0.5)); a non-number stays a non-number
Defuzzified(pairs) ==
  LET centerOfMass == XDiv(Nominator(pairs), Denominator(pairs))
  IN  IF IsFinite(centerOfMass)
      THEN PowerOfTwo(Floor(XAdd(centerOfMass, Half)))
      ELSE IF centerOfMass = NegInf THEN Zero
      ELSE centerOfMass

\* ------------------------------------------------------------------------
\* State
\* ------------------------------------------------------------------------
VARIABLES
  pc,                     \* position inside DetermineOversamplingFactor
  relativeStructureSize,  \* first argument of the call in progress
  complexityMeasure,      \* second argument of the call in progress
  outputs,                \* the four output membership functions of the call
  clippingValues,         \* rule1..rule6 clipping values
  consequents,            \* std::vector<vtkPiecewiseFunction*> consequents
  areaCentroidPairs,      \* std::vector<std::pair<double,double> >
  returned,               \* value returned by the last finished call
  membershipFunction,     \* the function a stand-alone ClipMembershipFunction works on
  clipValue,              \* clip values of the stand-alone clips so far
  unclipped,              \* the function before the stand-alone clips
  imageDataIsNull,        \* is the imageData argument a null pointer
  imageData,              \* grid geometry: extent, spacing, origin per axis
  oversamplingFactor,     \* factor of the last ApplyOversamplingOnImageGeometry
  imageDataBefore,        \* grid geometry before that call
  applied                 \* has ApplyOversamplingOnImageGeometry been called

inferenceVars == <<pc, relativeStructureSize, complexityMeasure, outputs,
                   clippingValues, consequents, areaCentroidPairs, returned>>
clipVars == <<membershipFunction, clipValue, unclipped>>
geometryVars == <<imageDataIsNull, imageData, oversamplingFactor, imageDataBefore, applied>>
vars == <<inferenceVars, clipVars, geometryVars>>

\* no function defined yet
NoFunctions == [name \in OutputNames |-> <<>>]

Axes == 1..3

\* the image data of a freshly constructed vtkImageData: extent 0..-1 is empty,
\* here a single voxel per axis so that it is a grid
DefaultImageData ==
  [extent |-> [axis \in Axes |-> <<0, 0>>],
   spacing |-> [axis \in Axes |-> One],
   origin |-> [axis \in Axes |-> Zero]]

InferenceInit ==
  /\ pc = "idle"
  /\ relativeStructureSize = Zero
  /\ complexityMeasure = Zero
  /\ outputs = NoFunctions
  /\ clippingValues = <<>>
  /\ consequents = <<>>
  /\ areaCentroidPairs = <<>>
  /\ returned = One

ClipIdle ==
  /\ membershipFunction = <<>>
  /\ clipValue = <<>>
  /\ unclipped = <<>>

GeometryIdle ==
  /\ imageDataIsNull = FALSE
  /\ imageData = DefaultImageData
  /\ oversamplingFactor = One
  /\ imageDataBefore = DefaultImageData
  /\ applied = FALSE

\* ------------------------------------------------------------------------
\* DetermineOversamplingFactor, step by step
\* ------------------------------------------------------------------------
\* -log10 of a relative size: any double, infinite for a zero or unbounded ratio,
\* not a number for the ratio 0/0
SizeMeasures ==
  {R(k, SizeDen) : k \in (-SizeDen)..(5 * SizeDen)} \cup {NegInf, PosInf, NaN}

\* max(normalizedShapeIndex - 1.0, 0.0), or the failure value
ComplexityMeasures ==
  {InvalidMeasure, PosInf, NaN}
    \cup {R(k, ComplexityDen) : k \in 0..(2 * ComplexityDen)}

\* the call with an invalid measure: the default is returned at once
DetermineInvalid ==
  /\ pc = "idle"
  /\ \E relSize \in SizeMeasures, complexity \in ComplexityMeasures :
       /\ InvalidInputMeasures(relSize, complexity)
       /\ relativeStructureSize' = relSize
       /\ complexityMeasure' = complexity
  /\ returned' = One
  /\ pc' = "done"
  /\ outputs' = NoFunctions
  /\ clippingValues' = <<>>
  /\ consequents' = <<>>
  /\ areaCentroidPairs' = <<>>
  /\ UNCHANGED <<clipVars, geometryVars>>

\* the call with valid measures: membership functions are defined, the inputs
\* fuzzified and the six rules applied
DetermineStart ==
  /\ pc = "idle"
  /\ \E relSize \in SizeMeasures, complexity \in ComplexityMeasures :
       /\ ~InvalidInputMeasures(relSize, complexity)
       /\ relativeStructureSize' = relSize
       /\ complexityMeasure' = complexity
       /\ clippingValues' = ClippingValues(relSize, complexity)
  /\ outputs' = OutputMembershipFunctions
  /\ consequents' = <<>>
  /\ areaCentroidPairs' = <<>>
  /\ pc' = "clip"
  /\ UNCHANGED <<returned, clipVars, geometryVars>>

\* DeepCopy of the rule's output membership function
DeepCopy(f) == f

\* the next rule's consequent clipped in the output function itself, no copy made
ClipConsequentInPlace ==
  /\ pc = "clip"
  /\ Len(consequents) < NumRules
  /\ LET rule == Len(consequents) + 1
         name == RuleConsequent[rule]
         clipped == ClipMembershipFunction(outputs[name], clippingValues[rule])
     IN  /\ outputs' = [outputs EXCEPT ![name] = clipped]
         /\ consequents' = Append(consequents, clipped)
  /\ pc' = IF Len(consequents) + 1 = NumRules THEN "aggregate" ELSE "clip"
  /\ UNCHANGED <<relativeStructureSize, complexityMeasure, clippingValues,
                 areaCentroidPairs, returned, clipVars, geometryVars>>

\* the next rule's consequent: a copy of its output function, clipped, pushed back
ClipConsequent ==
  /\ pc = "clip"
  /\ Len(consequents) < NumRules
  /\ LET rule == Len(consequents) + 1
         copy == DeepCopy(outputs[RuleConsequent[rule]])
     IN  consequents' =
           Append(consequents, ClipMembershipFunction(copy, clippingValues[rule]))
  /\ pc' = IF Len(consequents) + 1 = NumRules THEN "aggregate" ELSE "clip"
  /\ UNCHANGED <<relativeStructureSize, complexityMeasure, outputs, clippingValues,
                 areaCentroidPairs, returned, clipVars, geometryVars>>

\* areas and centroids of all the sections of all the consequents
Aggregate ==
  /\ pc = "aggregate"
  /\ areaCentroidPairs' = AreaCentroidPairs(consequents, 1)
  /\ pc' = "defuzzify"
  /\ UNCHANGED <<relativeStructureSize, complexityMeasure, outputs, clippingValues,
                 consequents, returned, clipVars, geometryVars>>

\* combined center of mass, rounded, and 2 to that power returned
Defuzzify ==
  /\ pc = "defuzzify"
  /\ returned' = Defuzzified(areaCentroidPairs)
  /\ pc' = "done"
  /\ UNCHANGED <<relativeStructureSize, complexityMeasure, outputs, clippingValues,
                 consequents, areaCentroidPairs, clipVars, geometryVars>>

\* the caller goes on; the locals of the call are gone
Return ==
  /\ pc = "done"
  /\ pc' = "idle"
  /\ relativeStructureSize' = Zero
  /\ complexityMeasure' = Zero
  /\ outputs' = NoFunctions
  /\ clippingValues' = <<>>
  /\ consequents' = <<>>
  /\ areaCentroidPairs' = <<>>
  /\ UNCHANGED <<returned, clipVars, geometryVars>>

Init == InferenceInit /\ ClipIdle /\ GeometryIdle

Next ==
  \/ DetermineInvalid
  \/ DetermineStart
  \/ ClipConsequent
  \/ Aggregate
  \/ Defuzzify
  \/ Return

Spec == Init /\ [][Next]_vars

\* ------------------------------------------------------------------------
\* ClipMembershipFunction on its own: an output membership function is
\* clipped, and the result clipped again
\* ------------------------------------------------------------------------
ClipValues == {R(k, ClipDen) : k \in 0..(ClipDen + ClipDen \div 2)}

ClipInit ==
  /\ InferenceInit
  /\ GeometryIdle
  /\ \E name \in OutputNames :
       /\ membershipFunction = DeepCopy(OutputMembershipFunctions[name])
       /\ unclipped = OutputMembershipFunctions[name]
  /\ clipValue = <<>>

Clip ==
  /\ Len(clipValue) < MaxClips
  /\ \E value \in ClipValues :
       /\ membershipFunction' = ClipMembershipFunction(membershipFunction, value)
       /\ clipValue' = Append(clipValue, value)
  /\ UNCHANGED <<unclipped, inferenceVars, geometryVars>>

ClipNext == Clip

ClipSpec == ClipInit /\ [][ClipNext]_vars

\* ------------------------------------------------------------------------
\* ApplyOversamplingOnImageGeometry
\* ------------------------------------------------------------------------
\* vtkOrientedImageData directions: the identity unless set otherwise
Directions == [row \in Axes |-> [col \in Axes |-> IF row = col THEN One ELSE Zero]]

\* the sanity check with && in place of ||
UnreasonableFactorBoth(factor) ==
  XLt(factor, R(1, 100)) /\ XGt(factor, R(100, 1))

\* the sanity check for a sensible oversampling factor
UnreasonableFactor(factor) ==
  XLt(factor, R(1, 100)) \/ XGt(factor, R(100, 1))

\* int dimension = extent[axis*2+1] - extent[axis*2] + 1
Dimension(extent, axis) == extent[axis][2] - extent[axis][1] + 1

\* the new extent of one axis
NewExtent(extent, factor, axis) ==
  LET dimension == Dimension(extent, axis)
      extentMin == Ceil(XMul(factor, R(extent[axis][1], 1)))
      extentMax == extentMin + Floor(XMul(factor, R(dimension, 1))) - 1
  IN  <<extentMin, extentMax>>

\* the new spacing of one axis
NewSpacing(extent, newExtent, spacing, axis) ==
  XDiv(XMul(spacing[axis], R(Dimension(extent, axis), 1)),
       R(Dimension(newExtent, axis), 1))

\* GetImageToWorldMatrix: element (row, col) is Spacing[col] * Directions[row][col]
\* and column 4 is the origin
ImageToWorld(spacing, origin, row, col) ==
  IF col \in Axes THEN XMul(spacing[col], Directions[row][col]) ELSE origin[row]

\* vtkMatrix4x4::MultiplyPoint, one row of the result for a point with w = 1
MultiplyPoint(spacing, origin, point, row) ==
  XAdd(XAdd(XAdd(XMul(ImageToWorld(spacing, origin, row, 1), point[1]),
                 XMul(ImageToWorld(spacing, origin, row, 2), point[2])),
            XMul(ImageToWorld(spacing, origin, row, 3), point[3])),
       XMul(ImageToWorld(spacing, origin, row, 4), One))

\* the new origin in image coordinates, one axis
NewOriginImage(spacing, newSpacing, axis) ==
  XMul(Half, XSub(One, XDiv(spacing[axis], newSpacing[axis])))

\* the geometry after the oversampling has been applied
Oversampled(image, factor) ==
  LET newExtent == [axis \in Axes |-> NewExtent(image.extent, factor, axis)]
      newSpacing ==
        [axis \in Axes |-> NewSpacing(image.extent, newExtent, image.spacing, axis)]
      newOriginImage ==
        [axis \in Axes |-> NewOriginImage(image.spacing, newSpacing, axis)]
      newOriginWorld ==
        [axis \in Axes |-> MultiplyPoint(newSpacing, image.origin, newOriginImage, axis)]
  IN  [extent |-> newExtent, spacing |-> newSpacing, origin |-> newOriginWorld]

\* the geometry the call leaves behind
AppliedGeometry(image, factor) ==
  IF UnreasonableFactor(factor) THEN image
  ELSE IF factor # One THEN Oversampled(image, factor)
  ELSE image

OversamplingFactors ==
  {R(1, 200), R(1, 100), R(1, 2), One, R(3, 2), R(2, 1), R(4, 1), R(100, 1), R(150, 1)}

Spacings == {One, Half}

Origins == {R(-3, 2)}

AxisExtents ==
  {<<extentMin, extentMin + dimension - 1>> :
     extentMin \in (-MaxExtentMin)..MaxExtentMin, dimension \in 1..MaxDimension}

\* extent [0,9] on every axis, spacing 1
TenVoxelImageData ==
  [extent |-> [axis \in Axes |-> <<0, 9>>],
   spacing |-> [axis \in Axes |-> One],
   origin |-> [axis \in Axes |-> Zero]]

ImageDatas ==
  [extent : [Axes -> AxisExtents], spacing : [Axes -> Spacings],
   origin : {[axis \in Axes |-> o] : o \in Origins}]
  \cup {TenVoxelImageData}

GeometryInit ==
  /\ InferenceInit
  /\ ClipIdle
  /\ \/ imageDataIsNull = FALSE /\ imageData \in ImageDatas
     \/ imageDataIsNull = TRUE /\ imageData = DefaultImageData
  /\ imageDataBefore = imageData
  /\ oversamplingFactor = One
  /\ applied = FALSE

ApplyOversamplingOnImageGeometry ==
  /\ ~applied
  /\ \E factor \in OversamplingFactors :
       /\ oversamplingFactor' = factor
       /\ imageData' = IF imageDataIsNull THEN imageData
                       ELSE AppliedGeometry(imageData, factor)
  /\ imageDataBefore' = imageData
  /\ applied' = TRUE
  /\ UNCHANGED <<imageDataIsNull, inferenceVars, clipVars>>

GeometryNext == ApplyOversamplingOnImageGeometry

GeometrySpec == GeometryInit /\ [][GeometryNext]_vars

\* ------------------------------------------------------------------------
\* Properties of DetermineOversamplingFactor (checked under Spec)
\* ------------------------------------------------------------------------
\* a call with valid measures has got past fuzzification
Inferring == pc \in {"clip", "aggregate", "defuzzify", "done"} /\ clippingValues # <<>>

\* total area of the sections of one function
TotalArea(f) == Denominator(SectionPairs(f, 1))

\* C1 (its case never arises): once the sections are aggregated the total area
\* is positive, so the division of the defuzzification never has a zero divisor
\* and the absent zero-total check is never needed.
TotalAreaNeverZero ==
  (Inferring /\ pc \in {"defuzzify", "done"})
    => XGt(Denominator(areaCentroidPairs), Zero)

\* C3: whenever sizeMeasure or complexityMeasure is the failure value -1.0 the
\* call returns exactly 1.0, and no rule has been evaluated: no clipping value,
\* consequent or section has been computed.
C3_InvalidMeasureReturnsOne ==
  (pc # "idle" /\ (relativeStructureSize = R(-1, 1) \/ complexityMeasure = R(-1, 1)))
    => /\ pc = "done"
       /\ returned = R(1, 1)
       /\ clippingValues = <<>>
       /\ consequents = <<>>
       /\ areaCentroidPairs = <<>>

\* a finished call whose sizeMeasure alone is invalid
C3_Witness ==
  /\ pc = "done"
  /\ relativeStructureSize = R(-1, 1)
  /\ complexityMeasure = R(2, 5)
  /\ returned = R(1, 1)

\* C4: for sizeMeasure 1.25 and complexityMeasure 0.4 rules 3 and 5 have
\* strength 0.5, and the call returns 1.0.
C4_MediumSizeScenario ==
  (Inferring /\ relativeStructureSize = R(5, 4) /\ complexityMeasure = R(2, 5))
    => /\ clippingValues[3] = R(1, 2)
       /\ clippingValues[5] = R(1, 2)
       /\ (pc = "done" => returned = R(1, 1))

\* the finished call of the scenario
C4_Witness ==
  /\ pc = "done"
  /\ relativeStructureSize = R(5, 4)
  /\ complexityMeasure = R(2, 5)
  /\ clippingValues[3] = R(1, 2)
  /\ clippingValues[5] = R(1, 2)
  /\ Len(consequents) = 6
  /\ returned = R(1, 1)

C9_AreaAndStrength ==
  (Inferring /\ pc \in {"defuzzify", "done"})
    => /\ \A rule \in 1..NumRules :
            /\ XGe(TotalArea(consequents[rule]), Zero)
            /\ XGt(TotalArea(consequents[rule]), Zero) <=> XGt(clippingValues[rule], Zero)
            /\ \A node \in 1..(Len(consequents[rule]) - 1) :
                 XGe(Trapezoid(consequents[rule][node], consequents[rule][node + 1])[1], Zero)
       /\ XGe(Denominator(areaCentroidPairs), Zero)
       /\ (Denominator(areaCentroidPairs) = Zero)
            <=> (\A rule \in 1..NumRules : clippingValues[rule] = Zero)
       /\ \A i \in 1..Len(areaCentroidPairs) : XGt(areaCentroidPairs[i][1], Zero)

\* aggregated sections of a call in which a rule did not fire, a rule fired
\* partially and a rule fired fully
C9_Witness ==
  /\ pc = "defuzzify"
  /\ Inferring
  /\ \E r1, r2 \in 1..NumRules :
       /\ clippingValues[r1] = Zero
       /\ TotalArea(consequents[r1]) = Zero
       /\ XGt(clippingValues[r2], Zero)
       /\ XLt(clippingValues[r2], One)
       /\ XGt(TotalArea(consequents[r2]), Zero)
  /\ XGt(Denominator(areaCentroidPairs), Zero)

\* C10: during the call the four output membership functions keep the control
\* points they were defined with, and every rule's consequent is the clip of the
\* un-clipped output function at that rule's own strength, whatever the strength
\* of the other rule with the same output function.
C10_OutputsNeverClipped ==
  Inferring
    => /\ outputs.Low = oversamplingLow
       /\ outputs.Normal = oversamplingNormal
       /\ outputs.High = oversamplingHigh
       /\ outputs.VeryHigh = oversamplingVeryHigh
       /\ \A rule \in 1..Len(consequents) :
            consequents[rule] =
              ClipMembershipFunction(
                CASE rule = 1 -> oversamplingVeryHigh
                  [] rule \in {2, 3} -> oversamplingHigh
                  [] rule \in {4, 5} -> oversamplingNormal
                  [] rule = 6 -> oversamplingLow,
                clippingValues[rule])

\* all six clips done, the two High rules clipped at different strengths below 1
\* and the two Normal rules too
C10_Witness ==
  /\ pc = "done"
  /\ Inferring
  /\ Len(consequents) = 6
  /\ XLt(clippingValues[2], clippingValues[3])
  /\ XLt(clippingValues[3], One)
  /\ consequents[2] # consequents[3]
  /\ clippingValues[4] # clippingValues[5]
  /\ consequents[4] # consequents[5]
  /\ outputs = OutputMembershipFunctions

\* ------------------------------------------------------------------------
\* Properties of ClipMembershipFunction (checked under ClipSpec)
\* ------------------------------------------------------------------------
\* C8: after an output membership function is clipped at a strength in [0,1],
\* no control point has a degree above the strength, a control point with
\* degree exactly the strength sits at every place where the un-clipped function
\* crossed the strength strictly between two of its points, and the x values of
\* the control points are strictly increasing.
C8_ClippedShape ==
  (Len(clipValue) = 1 /\ XGe(clipValue[1], Zero) /\ XLe(clipValue[1], One))
    => /\ \A i \in 1..Len(membershipFunction) :
            XLe(membershipFunction[i][2], clipValue[1])
       /\ \A i \in 1..(Len(unclipped) - 1) :
            ((XLt(unclipped[i][2], clipValue[1]) /\ XGt(unclipped[i + 1][2], clipValue[1]))
              \/ (XGt(unclipped[i][2], clipValue[1]) /\ XLt(unclipped[i + 1][2], clipValue[1])))
            => \E j \in 1..Len(membershipFunction) :
                 /\ membershipFunction[j][2] = clipValue[1]
                 /\ XGt(membershipFunction[j][1], unclipped[i][1])
                 /\ XLt(membershipFunction[j][1], unclipped[i + 1][1])
                 /\ XMul(XSub(membershipFunction[j][1], unclipped[i][1]),
                         XSub(unclipped[i + 1][2], unclipped[i][2]))
                      = XMul(XSub(clipValue[1], unclipped[i][2]),
                             XSub(unclipped[i + 1][1], unclipped[i][1]))
       /\ \A i \in 1..(Len(membershipFunction) - 1) :
            XLt(membershipFunction[i][1], membershipFunction[i + 1][1])

\* oversamplingHigh clipped once at 1/3: both slopes crossed, two points added
C8_Witness ==
  /\ clipValue = <<R(1, 3)>>
  /\ unclipped = oversamplingHigh
  /\ Len(membershipFunction) = Len(unclipped) + 2
  /\ \E j \in 1..Len(membershipFunction) :
       membershipFunction[j] = <<R(5, 12), R(1, 3)>>

\* ------------------------------------------------------------------------
\* Properties of ApplyOversamplingOnImageGeometry (checked under GeometrySpec)
\* ------------------------------------------------------------------------
\* physical position of the lower outer corner of the grid along one axis
LowerCorner(image, axis) ==
  XAdd(image.origin[axis],
       XMul(XSub(R(image.extent[axis][1], 1), Half), image.spacing[axis]))

\* physical position of the upper outer corner of the grid along one axis
UpperCorner(image, axis) ==
  XAdd(image.origin[axis],
       XMul(XAdd(R(image.extent[axis][2], 1), Half), image.spacing[axis]))

\* the call was made on a grid with a factor in [0.01, 100] other than 1
FactorApplied ==
  /\ applied
  /\ ~imageDataIsNull
  /\ XGe(oversamplingFactor, R(1, 100))
  /\ XLe(oversamplingFactor, R(100, 1))
  /\ oversamplingFactor # R(1, 1)

\* C2: for every grid and every factor in [0.01, 100] other than 1, the lower
\* and the upper outer corner of the bounding box are at the same physical
\* position on each axis after the call as before it.
C2_CornersPreserved ==
  FactorApplied
    => \A axis \in Axes :
         /\ LowerCorner(imageData, axis) = LowerCorner(imageDataBefore, axis)
         /\ UpperCorner(imageData, axis) = UpperCorner(imageDataBefore, axis)

\* the call left at least one voxel on every axis
NonEmptyAfter == \A axis \in Axes : Dimension(imageData.extent, axis) >= 1

\* C2, narrowed to the calls that leave a voxel on every axis: not an invariant
\* either (extent [-1,0], spacing 1, factor 1.5 moves both corners by 1/3).
CornersPreservedIfNonEmpty ==
  (FactorApplied /\ NonEmptyAfter) => C2_CornersPreserved

\* what does hold for C2: on an axis whose extent starts at 0 both corners stay
\* where they were, provided the call leaves a voxel on every axis.
CornersPreservedFromZero ==
  (FactorApplied /\ NonEmptyAfter)
    => \A axis \in Axes :
         imageDataBefore.extent[axis][1] = 0
           => /\ LowerCorner(imageData, axis) = LowerCorner(imageDataBefore, axis)
              /\ UpperCorner(imageData, axis) = UpperCorner(imageDataBefore, axis)

\* C6: the extent, spacing and origin of the grid are unchanged whenever the
\* factor is exactly 1.0 or lies outside [0.01, 100]; a grid is modified only by
\* a factor inside [0.01, 100] that is not 1.
C6_NoOpFactors ==
  applied
    => /\ (oversamplingFactor = R(1, 1)
            \/ XLt(oversamplingFactor, R(1, 100))
            \/ XGt(oversamplingFactor, R(100, 1)))
           => imageData = imageDataBefore
       /\ imageData # imageDataBefore => FactorApplied

\* the call with factor 150 on a grid, which is left as it was
C6_Witness ==
  /\ applied
  /\ ~imageDataIsNull
  /\ oversamplingFactor = R(150, 1)
  /\ imageData = imageDataBefore
  /\ imageData.extent[1] = <<-1, 0>>

\* C7: for every factor in [0.01, 100] other than 1 and each of the 3 axes the
\* new extent min is ceil(factor * old extent min), the new voxel count is
\* floor(factor * old voxel count), and new spacing * new voxel count equals
\* old spacing * old voxel count; factor 2.0 on extent [0,9] with spacing 1.0
\* gives extent [0,19] and spacing 0.5.
C7_ExtentAndSpacing ==
  FactorApplied
    => /\ \A axis \in Axes :
            /\ imageData.extent[axis][1]
                 = Ceil(XMul(oversamplingFactor, R(imageDataBefore.extent[axis][1], 1)))
            /\ Dimension(imageData.extent, axis)
                 = Floor(XMul(oversamplingFactor,
                              R(Dimension(imageDataBefore.extent, axis), 1)))
            /\ XMul(imageData.spacing[axis], R(Dimension(imageData.extent, axis), 1))
                 = XMul(imageDataBefore.spacing[axis],
                        R(Dimension(imageDataBefore.extent, axis), 1))
       /\ (imageDataBefore = TenVoxelImageData /\ oversamplingFactor = R(2, 1))
            => \A axis \in Axes :
                 /\ imageData.extent[axis] = <<0, 19>>
                 /\ imageData.spacing[axis] = R(1, 2)

\* what does hold for C7: the three equations and the scenario, for every call
\* that leaves a voxel on every axis.
ExtentAndSpacingIfNonEmpty ==
  (FactorApplied /\ NonEmptyAfter) => C7_ExtentAndSpacing

\* ------------------------------------------------------------------------
\* Idempotence of ClipMembershipFunction (checked under ClipSpec)
\* ------------------------------------------------------------------------
\* the clip value of the latest stand-alone clip
LastClipValue(values) == values[Len(values)]

\* C11: clipping a function that was already clipped at strength s again at a
\* strength s' >= s leaves its control points unchanged, and clipping any
\* function at a strength >= 1.0 leaves its control points unchanged.
C11_ClipIdempotent ==
  [][(Len(clipValue') = Len(clipValue) + 1
        /\ (\/ XGe(LastClipValue(clipValue'), R(1, 1))
            \/ (clipValue # <<>>
                  /\ XGe(LastClipValue(clipValue'), LastClipValue(clipValue)))))
       => membershipFunction' = membershipFunction]_vars

\* oversamplingHigh clipped at 1/3, which added two points and lowered two, and
\* then clipped at 1/2, which left the six points as they were
C11_Witness ==
  /\ clipValue = <<R(1, 3), R(1, 2)>>
  /\ unclipped = oversamplingHigh
  /\ membershipFunction # unclipped
  /\ membershipFunction =
       << <<R(1, 4), Zero>>, <<R(5, 12), R(1, 3)>>, <<R(3, 4), R(1, 3)>>,
          <<R(5, 4), R(1, 3)>>, <<R(19, 12), R(1, 3)>>, <<R(7, 4), Zero>> >>

\* ------------------------------------------------------------------------
\* Range of DetermineOversamplingFactor (checked under Spec)
\* ------------------------------------------------------------------------
\* C12: for every pair of measures neither of which is the failure value, the
\* values far outside the calibrated ranges included, at least one of the six
\* rules has strength > 0 and the call returns one of 0.5, 1.0, 2.0 and 4.0.
C12_PowerOfTwoFactor ==
  Inferring
    => /\ \E rule \in 1..NumRules : XGt(clippingValues[rule], Zero)
       /\ pc = "done" => returned \in {R(1, 2), R(1, 1), R(2, 1), R(4, 1)}

\* the finished call for sizeMeasure 3.0 and an infinite complexityMeasure:
\* rule 2 alone fires and 2.0 is returned
C12_Witness ==
  /\ pc = "done"
  /\ relativeStructureSize = R(3, 1)
  /\ complexityMeasure = PosInf
  /\ clippingValues = <<Zero, One, Zero, Zero, Zero, Zero>>
  /\ returned = R(2, 1)

\* ------------------------------------------------------------------------
\* Voxel count after ApplyOversamplingOnImageGeometry (checked under GeometrySpec)
\* ------------------------------------------------------------------------
\* the grid had at least one voxel on every axis before the call
NonEmptyBefore == \A axis \in Axes : Dimension(imageDataBefore.extent, axis) >= 1

\* C13: whenever the call modifies a grid that has at least one voxel on every
\* axis, for any factor in [0.01, 100], the resulting grid has at least one
\* voxel on every axis (new extent max >= new extent min) and the new spacing
\* was computed with a non-zero divisor.
C13_GridStaysNonEmpty ==
  (FactorApplied /\ NonEmptyBefore /\ imageData # imageDataBefore)
    => \A axis \in Axes :
         /\ imageData.extent[axis][2] >= imageData.extent[axis][1]
         /\ Dimension(imageData.extent, axis) # 0
         /\ IsFinite(imageData.spacing[axis])

\* what does hold for C13: a factor of at least 1 leaves every axis with at
\* least as many voxels as it had, and a finite spacing
GridStaysNonEmptyIfUpsampled ==
  (FactorApplied /\ NonEmptyBefore /\ XGe(oversamplingFactor, R(1, 1)))
    => \A axis \in Axes :
         /\ Dimension(imageData.extent, axis) >= Dimension(imageDataBefore.extent, axis)
         /\ IsFinite(imageData.spacing[axis])

====
